---- MODULE Spec2Model ----
(***************************************************************************)
(* The ES data-access class of guppy (src/unnamed/part_001): the metadata  *)
(* cache built by initialize(), the synchronous readers of that cache, the *)
(* bounded query path (getData) and the scroll export (downloadData /      *)
(* scrollQuery), run against an Elasticsearch client whose answers are     *)
(* chosen nondeterministically.                                            *)
(*                                                                         *)
(* JavaScript values that may be undefined are tagged records, so that     *)
(* `undefined`, `false`, `[]` and `{}` stay distinct values.               *)
(***************************************************************************)
EXTENDS Integers, Sequences, FiniteSets, TLC

\* ------------------------------------------------------------------ bounds
\* The page-size ceiling imported from ./const (part_001 line 55), which is
\* not among the sources; a small value lets result sets below, at and above
\* it be explored.
SCROLL_PAGE_SIZE == 2
\* Most documents an export's query matches in the engine.
MaxDocs == 3
\* Calls of initialize() in one behaviour (the first one and re-initialization).
MaxInits == 2
\* Most hits the engine returns for the config-index lookup.
MaxHits == 2
\* Most times the engine renews the id of one scroll context.
MaxRenewals == 1

\* ------------------------------------------------------------ JS values
Undefined == [type |-> "undefined"]
Null == [type |-> "null"]
Num(n) == [type |-> "number", val |-> n]
Bool(b) == [type |-> "boolean", val |-> b]
Arr(s) == [type |-> "array", val |-> s]
Str(s) == [type |-> "string", val |-> s]
Obj(f) == [type |-> "object", val |-> f]

IsUndefined(v) == v.type = "undefined"

\* `!v` for the values used here: undefined, null, '' and false are falsy,
\* every array and object (also the empty ones) is truthy.
Falsy(v) ==
    \/ v.type \in {"undefined", "null"}
    \/ v.type = "string" /\ v.val = ""
    \/ v.type = "boolean" /\ ~v.val
    \/ v.type = "number" /\ v.val = 0

\* The empty object {}.
EmptyObj == [k \in {} |-> Undefined]

\* Set of the elements of a sequence.
Range(s) == {s[i] : i \in DOMAIN s}

\* All sequences without repetition over S of length at most n.
SeqsUpTo(S, n) ==
    {s \in UNION {[1..k -> S] : k \in 0..n} :
        \A i, j \in DOMAIN s : i # j => s[i] # s[j]}

\* ------------------------------------------------------- configuration
DescA == [index |-> "idxA", type |-> "typeA"]
DescB == [index |-> "idxB", type |-> "typeB"]
\* A second descriptor that declares typeA.
DescC == [index |-> "idxB", type |-> "typeA"]

\* config.esConfig.indices: missing, an empty list, one or two descriptors,
\* two of distinct types or two of the same type.
IndicesChoices ==
    {Undefined, Arr(<<>>), Arr(<<DescA>>), Arr(<<DescA, DescB>>), Arr(<<DescA, DescC>>)}
\* config.esConfig.configIndex: unset or the name of the array-config index.
ConfigIndexChoices == {Undefined, Str("cfg")}

\* ---------------------------------------------------- engine: mappings
\* Bodies indices.getMapping may answer with for an index: the `properties`
\* object of the mapping, field -> {type}.
PropsSmall == [f \in {"f1"} |-> [type |-> "keyword"]]
PropsLarge == [f \in {"f1", "f2"} |-> [type |-> IF f = "f1" THEN "keyword" ELSE "long"]]

\* An answer of getMapping: a transport error, a body without the expected
\* mappings[esType].properties path, or a well-formed body.
MappingAnswers ==
    {[kind |-> "error"], [kind |-> "malformed"]}
        \cup {[kind |-> "body", properties |-> p] : p \in {PropsSmall, PropsLarge}}

\* ---------------------------------------------- engine: the config index
\* Documents of the array-config index: _id names an index, _source.array
\* lists its array fields.  "f3" is in no mapping, "idxX" is not configured.
DocA == [_id |-> "idxA", array |-> <<"f3", "f1", "f2">>]
DocB == [_id |-> "idxB", array |-> <<"f2">>]
DocX == [_id |-> "idxX", array |-> <<"f1">>]
ConfigDocs == {DocA, DocB, DocX}

LookupAnswers ==
    {[kind |-> "error"]}
        \cup {[kind |-> "body", hits |-> h] : h \in SeqsUpTo(ConfigDocs, MaxHits)}

VARIABLES
    config,       \* this.config: [indices, configIndex]
    tierAccessMiddleware,  \* the middleware object built when its module loads
    fieldTypes,   \* this.fieldTypes: Undefined or Obj(index -> field -> type)
    arrayFields,  \* this.arrayFields: Undefined or Obj(index -> <<field, ...>>)
    initPc,       \* where the running initialize() is
    pending,      \* promiseList: the state of each per-index mapping promise
    initCount,    \* number of initialize() calls made
    lookup,       \* the state of the config-index search promise
    initLog,      \* engine calls the current initialize() has issued, in order
    snapshot,     \* the cache as it was when the current initialize() was called
    ret,          \* the last synchronous reader call and what it returned or threw
    bq,           \* the bounded query (getData) in progress and its outcome
    exports,      \* per caller: the downloadData / scrollQuery call in progress
    cursors       \* engine side: the scroll context opened for each caller

cacheVars == <<fieldTypes, arrayFields>>
initVars == <<initPc, pending, lookup, initCount, initLog, snapshot>>
requestVars == <<ret, bq, exports, cursors>>
vars == <<config, tierAccessMiddleware, fieldTypes, arrayFields, initPc, pending, lookup, initCount, initLog,
          snapshot, ret, bq, exports, cursors>>

\* ------------------------------------------------ tierAccessMiddleware
\* (src/server/middlewares/tierAccessMiddleware/index.js)

\* firstLetterUpperCase of ../../utils/utils, for the type names used here.
firstLetterUpperCase(type) ==
    CASE type = "typeA" -> "TypeA"
      [] type = "typeB" -> "TypeB"
      [] OTHER -> type

\* What tierAccessResolver and hideNumberResolver of ./resolvers are called
\* with; the resolvers they return are opaque here.
tierAccessResolver(isRawDataQuery, esType, esIndex) ==
    [resolver |-> "tierAccess", isRawDataQuery |-> isRawDataQuery,
     esType |-> esType, esIndex |-> esIndex]
hideNumberResolver(a, b) == [resolver |-> "hideNumber", args |-> <<a, b>>]

\* obj[k] = v on an object kept as a function.
SetKey(obj, k, v) == [x \in DOMAIN obj \cup {k} |-> IF x = k THEN v ELSE obj[x]]

\* The three mappings after config.esConfig.indices.forEach has visited the
\* descriptors of items in order: each item assigns the key of its type.
RECURSIVE TypeMappings(_, _)
TypeMappings(acc, items) ==
    IF items = <<>> THEN acc
    ELSE LET item == Head(items)
             aggregationName == firstLetterUpperCase(item.type) \o "Aggregation"
         IN TypeMappings(
               [queryTypeMapping |->
                    SetKey(acc.queryTypeMapping, item.type,
                           tierAccessResolver(Bool(TRUE), item.type, item.index)),
                aggsTypeMapping |->
                    SetKey(acc.aggsTypeMapping, item.type,
                           tierAccessResolver(Undefined, item.type, item.index)),
                totalCountTypeMapping |->
                    SetKey(acc.totalCountTypeMapping, aggregationName,
                           [_totalCount |-> hideNumberResolver(TRUE, TRUE)])],
               Tail(items))

\* The object literal of tierAccessMiddleware: later keys replace earlier
\* ones of the same name.
MiddlewareObject(m) ==
    LET histogram == [histogram |-> hideNumberResolver(FALSE, TRUE)]
        head == [k \in {"Query", "Aggregation"} |->
                    IF k = "Query" THEN m.queryTypeMapping ELSE m.aggsTypeMapping]
        keys == DOMAIN head \cup DOMAIN m.totalCountTypeMapping
        spread == [k \in keys |-> IF k \in DOMAIN m.totalCountTypeMapping
                                  THEN m.totalCountTypeMapping[k] ELSE head[k]]
    IN [k \in keys \cup {"HistogramForNumber", "HistogramForString"} |->
            IF k \in {"HistogramForNumber", "HistogramForString"}
            THEN histogram ELSE spread[k]]

\* The module's top-level code: forEach of a missing indices list throws
\* and no middleware exists.
BuildTierAccessMiddleware(indices) ==
    IF indices.type # "array" THEN Undefined
    ELSE Obj(MiddlewareObject(
            TypeMappings([queryTypeMapping |-> <<>>, aggsTypeMapping |-> <<>>,
                          totalCountTypeMapping |-> <<>>], indices.val)))

\* -------------------------------------------------------- initialize()

\* The guard of _getMappingsForAllIndices:
\*   !this.config.indices || this.config.indices === 0
\* An array is never === 0, so the second disjunct adds nothing for arrays.
IndicesRejected(indices) ==
    \/ Falsy(indices)
    \/ indices.type = "number" /\ indices.val = 0

\* _getESFieldsTypes' handler of one getMapping answer: the field -> type
\* object reduced from the mapping's properties, or a thrown Error.
getESFieldsTypes(cfg, answer) ==
    IF answer.kind = "body"
    THEN [state |-> "resolved",
          index |-> cfg.index,
          fieldTypes |-> [f \in DOMAIN answer.properties |-> answer.properties[f].type]]
    ELSE [state |-> "rejected"]

\* resultList.forEach(res => fieldTypes[res.index] = res.fieldTypes)
MergeResults(resultList) ==
    LET idxs == {resultList[i].index : i \in DOMAIN resultList}
        last(ix) == CHOOSE i \in DOMAIN resultList :
                        /\ resultList[i].index = ix
                        /\ \A j \in DOMAIN resultList : resultList[j].index = ix => j <= i
    IN [ix \in idxs |-> resultList[last(ix)].fieldTypes]

\* initialize() is called: _getMappingsForAllIndices runs to its await.  It
\* throws on a rejected configuration, and otherwise issues one getMapping
\* per descriptor, all of them before Promise.all is awaited.
initialize ==
    /\ initPc \in {"idle", "ready", "failed"}
    /\ initCount < MaxInits
    /\ initCount' = initCount + 1
    /\ snapshot' = [fieldTypes |-> fieldTypes, arrayFields |-> arrayFields]
    /\ lookup' = [state |-> "none"]
    /\ IF IndicesRejected(config.indices)
       THEN /\ initPc' = "failed"
            /\ pending' = <<>>
            /\ initLog' = <<>>
       ELSE /\ initPc' = "mapping"
            /\ pending' = [i \in DOMAIN config.indices.val |-> [state |-> "inflight"]]
            /\ initLog' = [i \in DOMAIN config.indices.val |->
                              [op |-> "getMapping", index |-> config.indices.val[i].index]]
    /\ UNCHANGED <<config, tierAccessMiddleware, fieldTypes, arrayFields, requestVars>>

\* One getMapping call is answered and its promise settles.
MappingResponse ==
    /\ initPc = "mapping"
    /\ \E i \in DOMAIN pending, answer \in MappingAnswers :
        /\ pending[i].state = "inflight"
        /\ pending' = [pending EXCEPT ![i] = getESFieldsTypes(config.indices.val[i], answer)]
    /\ UNCHANGED <<config, tierAccessMiddleware, fieldTypes, arrayFields, initPc, lookup, initCount, initLog,
                   snapshot, requestVars>>

\* Promise.allSettled in place of Promise.all: waits for every promise and
\* hands on the values of those that resolved.
PromiseAllSettled(promiseList) ==
    IF \E i \in DOMAIN promiseList : promiseList[i].state = "inflight"
    THEN [state |-> "pending"]
    ELSE [state |-> "resolved",
          values |-> SelectSeq(promiseList, LAMBDA r : r.state = "resolved")]

\* Promise.any in place of Promise.all: resolved as soon as one promise has
\* resolved, with the values at hand.
PromiseAny(promiseList) ==
    IF \E i \in DOMAIN promiseList : promiseList[i].state = "resolved"
    THEN [state |-> "resolved",
          values |-> SelectSeq(promiseList, LAMBDA r : r.state = "resolved")]
    ELSE IF \E i \in DOMAIN promiseList : promiseList[i].state = "inflight"
         THEN [state |-> "pending"]
         ELSE [state |-> "rejected"]

\* Promise.all(promiseList): rejected as soon as one promise has rejected,
\* resolved with every value, in order, once all have resolved.
PromiseAll(promiseList) ==
    IF \E i \in DOMAIN promiseList : promiseList[i].state = "rejected"
    THEN [state |-> "rejected"]
    ELSE IF \A i \in DOMAIN promiseList : promiseList[i].state = "resolved"
         THEN [state |-> "resolved", values |-> promiseList]
         ELSE [state |-> "pending"]

\* Promise.all has rejected: the await in initialize() throws, nothing is
\* assigned.  Mapping answers that arrive later are dropped.
MappingRejected ==
    /\ initPc = "mapping"
    /\ PromiseAll(pending).state = "rejected"
    /\ initPc' = "failed"
    /\ UNCHANGED <<config, tierAccessMiddleware, fieldTypes, arrayFields, pending, lookup, initCount, initLog,
                   snapshot, requestVars>>

\* The synchronous head of _getArrayFieldsFromConfigIndex, given the value
\* this.fieldTypes has just been assigned: TRUE when the search is issued.
LookupIssued(cfg, ft) ==
    /\ ~IsUndefined(cfg.configIndex)
    /\ ~Falsy(ft)

\* Promise.all resolves with every mapping: this.fieldTypes is assigned and
\* _getArrayFieldsFromConfigIndex runs to its await.
MappingJoined ==
    /\ initPc = "mapping"
    /\ PromiseAll(pending).state = "resolved"
    /\ LET ft == Obj(MergeResults(PromiseAll(pending).values)) IN
        /\ fieldTypes' = ft
        /\ initLog' = IF LookupIssued(config, ft)
                      THEN Append(initLog, [op |-> "search", index |-> config.configIndex.val])
                      ELSE initLog
        /\ lookup' = IF LookupIssued(config, ft)
                     THEN [state |-> "inflight"]
                     ELSE [state |-> "skipped"]
    /\ initPc' = "lookup"
    /\ UNCHANGED <<config, tierAccessMiddleware, arrayFields, pending, initCount, snapshot, requestVars>>

\* The field check left out: every declared field counts as found.
FieldAlwaysFound(ft, index, field) == FALSE

\* `!this.fieldTypes[index][field]` with index known to be a key.
FieldNotFound(ft, index, field) ==
    \/ field \notin DOMAIN ft.val[index]
    \/ ft.val[index][field] = ""

\* `!this.fieldTypes[index]`
IndexNotFound(ft, index) == index \notin DOMAIN ft.val

\* fields.forEach of one document: push every field found in the index.
RECURSIVE PushFields(_, _, _, _)
PushFields(acc, ft, index, fields) ==
    IF fields = <<>> THEN acc
    ELSE LET field == Head(fields)
             next == IF FieldNotFound(ft, index, field)
                     THEN acc
                     ELSE IF index \in DOMAIN acc
                          THEN [acc EXCEPT ![index] = Append(@, field)]
                          ELSE [ix \in DOMAIN acc \cup {index} |->
                                   IF ix = index THEN <<field>> ELSE acc[ix]]
         IN PushFields(next, ft, index, Tail(fields))

\* resp.body.hits.hits.forEach: documents of an unknown index are skipped.
RECURSIVE CollectArrayFields(_, _, _)
CollectArrayFields(acc, ft, hits) ==
    IF hits = <<>> THEN acc
    ELSE LET doc == Head(hits)
             next == IF IndexNotFound(ft, doc._id)
                     THEN acc
                     ELSE PushFields(acc, ft, doc._id, doc.array)
         IN CollectArrayFields(next, ft, Tail(hits))

\* The promise of _getArrayFieldsFromConfigIndex settles with no search
\* issued: it resolves with {} and this.arrayFields is assigned.
LookupSkipped ==
    /\ initPc = "lookup"
    /\ ~LookupIssued(config, fieldTypes)
    /\ arrayFields' = Obj(EmptyObj)
    /\ initPc' = "ready"
    /\ UNCHANGED <<config, tierAccessMiddleware, fieldTypes, pending, lookup, initCount, initLog, snapshot, requestVars>>

\* The config-index search is answered: the array fields are collected
\* against this.fieldTypes and assigned, or initialize() rejects.
LookupResponse ==
    /\ initPc = "lookup"
    /\ LookupIssued(config, fieldTypes)
    /\ \E answer \in LookupAnswers :
        IF answer.kind = "body"
        THEN /\ arrayFields' = Obj(CollectArrayFields(EmptyObj, fieldTypes, answer.hits))
             /\ lookup' = [state |-> "resolved", hits |-> answer.hits]
             /\ initPc' = "ready"
        ELSE /\ lookup' = [state |-> "rejected"]
             /\ initPc' = "failed"
             /\ UNCHANGED arrayFields
    /\ UNCHANGED <<config, tierAccessMiddleware, fieldTypes, pending, initCount, initLog, snapshot, requestVars>>

\* ------------------------------------------------ synchronous readers

\* What a call returns or throws.
Return(v) == [threw |-> FALSE, value |-> v]
Throw(e) == [threw |-> TRUE, error |-> e]

\* Errors: CodedError(code, msg) of ../utils/error, apollo's UserInputError,
\* the built-in Error and TypeError.  A message is kept as its fixed text
\* and the values interpolated into it.
CodedError(code, text, names) ==
    [name |-> "CodedError", code |-> code, text |-> text, names |-> names]
UserInputError(text, names) ==
    [name |-> "UserInputError", text |-> text, names |-> names]
Error(text) == [name |-> "Error", text |-> text]
TypeError == [name |-> "TypeError"]

\* Names used as arguments: "idxX", "typeX" are not configured.
IndexNames == {"idxA", "idxB", "idxX"}
TypeNames == {"typeA", "typeB", "typeX"}
FieldNames == {"f1", "f2", "f3"}
IndexArgs == {Undefined} \cup {Str(n) : n \in IndexNames}

\* Requests are served once an initialize() has completed: the server awaits
\* initialize() before it listens, and this.arrayFields is assigned last.
Serving == ~IsUndefined(arrayFields)

\* getESFieldTypeMappingByIndex(esIndex): this.fieldTypes[esIndex]
getESFieldTypeMappingByIndex(ft, esIndex) ==
    IF IsUndefined(ft) THEN Throw(TypeError)
    ELSE IF esIndex.type = "string" /\ esIndex.val \in DOMAIN ft.val
         THEN Return(Obj(ft.val[esIndex.val]))
         ELSE Return(Undefined)

\* getESFields(esIndex): one {index, type, fields} entry per descriptor, keyed
\* by index; all of them when esIndex is undefined, else res[esIndex].
\* Object.keys of a missing this.fieldTypes[cfg.index] is a TypeError.
getESFields(cfg, ft, esIndex) ==
    IF \/ cfg.indices.type # "array"
       \/ IsUndefined(ft)
       \/ \E i \in DOMAIN cfg.indices.val : cfg.indices.val[i].index \notin DOMAIN ft.val
    THEN Throw(TypeError)
    ELSE LET descs == cfg.indices.val
             last(ix) == CHOOSE i \in DOMAIN descs :
                            /\ descs[i].index = ix
                            /\ \A j \in DOMAIN descs : descs[j].index = ix => j <= i
             res == [ix \in {descs[i].index : i \in DOMAIN descs} |->
                        Obj([index |-> ix,
                             type |-> descs[last(ix)].type,
                             fields |-> DOMAIN ft.val[ix]])]
         IN IF IsUndefined(esIndex) THEN Return(Obj(res))
            ELSE IF esIndex.type = "string" /\ esIndex.val \in DOMAIN res
                 THEN Return(res[esIndex.val])
                 ELSE Return(Undefined)

\* The last descriptor of the type in place of the first.
FindLastByType(descs, esType) ==
    LET found == {i \in DOMAIN descs : descs[i].type = esType}
    IN IF found = {} THEN Undefined
       ELSE Obj(descs[CHOOSE i \in found : \A j \in found : j <= i])

\* this.config.indices.find(i => i.type === esType): the first descriptor of
\* the type, undefined when there is none.
FindByType(descs, esType) ==
    LET found == {i \in DOMAIN descs : descs[i].type = esType}
    IN IF found = {} THEN Undefined
       ELSE Obj(descs[CHOOSE i \in found : \A j \in found : i <= j])

\* getESIndexByType(esType): the index of the descriptor found for the type,
\* or CodedError 400.
getESIndexByType(cfg, esType) ==
    IF cfg.indices.type # "array" THEN Throw(TypeError)
    ELSE LET index == FindByType(cfg.indices.val, esType)
         IN IF ~Falsy(index)
            THEN Return(Str(index.val.index))
            ELSE Throw(CodedError(400, "Invalid es type", <<esType>>))

\* isArrayField(esIndex, field):
\*   this.arrayFields[esIndex] && this.arrayFields[esIndex].includes(field)
\* `a && b` is a when a is falsy: undefined for an index without an entry.
isArrayField(af, esIndex, field) ==
    IF IsUndefined(af) THEN Throw(TypeError)
    ELSE IF esIndex \notin DOMAIN af.val
         THEN Return(Undefined)
         ELSE Return(Bool(field \in Range(af.val[esIndex])))

CallGetESFieldTypeMappingByIndex ==
    /\ Serving
    /\ \E esIndex \in IndexArgs :
        ret' = [op |-> "getESFieldTypeMappingByIndex", args |-> <<esIndex>>,
                out |-> getESFieldTypeMappingByIndex(fieldTypes, esIndex)]
    /\ UNCHANGED <<config, tierAccessMiddleware, cacheVars, initVars, bq, exports, cursors>>

CallGetESFields ==
    /\ Serving
    /\ \E esIndex \in IndexArgs :
        ret' = [op |-> "getESFields", args |-> <<esIndex>>,
                out |-> getESFields(config, fieldTypes, esIndex)]
    /\ UNCHANGED <<config, tierAccessMiddleware, cacheVars, initVars, bq, exports, cursors>>

CallGetESIndexByType ==
    /\ Serving
    /\ \E esType \in TypeNames :
        ret' = [op |-> "getESIndexByType", args |-> <<Str(esType)>>,
                out |-> getESIndexByType(config, esType)]
    /\ UNCHANGED <<config, tierAccessMiddleware, cacheVars, initVars, bq, exports, cursors>>

\* isArrayField that records an empty list for an index it finds no entry for.
CallIsArrayFieldCaching ==
    /\ Serving
    /\ \E esIndex \in IndexNames, field \in FieldNames :
        /\ ret' = [op |-> "isArrayField", args |-> <<Str(esIndex), Str(field)>>,
                   out |-> isArrayField(arrayFields, esIndex, field)]
        /\ arrayFields' = IF esIndex \in DOMAIN arrayFields.val THEN arrayFields
                          ELSE Obj([ix \in DOMAIN arrayFields.val \cup {esIndex} |->
                                    IF ix = esIndex THEN <<>> ELSE arrayFields.val[ix]])
    /\ UNCHANGED <<config, tierAccessMiddleware, fieldTypes, initVars, bq, exports, cursors>>

CallIsArrayField ==
    /\ Serving
    /\ \E esIndex \in IndexNames, field \in FieldNames :
        ret' = [op |-> "isArrayField", args |-> <<Str(esIndex), Str(field)>>,
                out |-> isArrayField(arrayFields, esIndex, field)]
    /\ UNCHANGED <<config, tierAccessMiddleware, cacheVars, initVars, bq, exports, cursors>>

\* ------------------------------------------- bounded queries (getData)

\* Arguments of the bounded queries.  A filter and a sort are opaque values
\* that pass translation; offset and size straddle the page-size ceiling.
FilterArgs == {Undefined, Str("filter")}
SortArgs == {Undefined, Arr(<<"f1:asc">>)}
FieldsArgs == {Undefined, Arr(<<>>), Arr(<<"f1">>)}
OffsetArgs == {Undefined, Num(0), Num(1)}
SizeArgs == {Undefined, Null, Num(0), Num(SCROLL_PAGE_SIZE), Num(SCROLL_PAGE_SIZE + 1)}

\* getFilterObj of ./filter: the engine query of a filter.
getFilterObj(filter) == Obj([translated |-> filter.val])

\* getESSortBody of ./sort: the engine sort clause; undefined for no sort.
getESSortBody(sort) == IF IsUndefined(sort) THEN Undefined ELSE sort

\* obj[k] = v
Put(obj, k, v) == [x \in DOMAIN obj \cup {k} |-> IF x = k THEN v ELSE obj[x]]

\* The guard of getData with the offset left out of the sum.
SizeExceedsCeiling(offset, size) ==
    /\ size.type = "number"
    /\ size.val > SCROLL_PAGE_SIZE

\* The guard of getData:
\*   typeof size !== 'undefined' && offset + size > SCROLL_PAGE_SIZE
\* In the sum null counts as 0 and undefined makes it NaN, and NaN > n is
\* false.
ExceedsCeiling(offset, size) ==
    /\ ~IsUndefined(size)
    /\ offset.type \in {"number", "null"}
    /\ size.type \in {"number", "null"}
    /\ (IF offset.type = "number" THEN offset.val ELSE 0)
         + (IF size.type = "number" THEN size.val ELSE 0) > SCROLL_PAGE_SIZE

\* filterData's query body; the parameter defaults (fields = [], offset = 0)
\* apply to undefined arguments only.
filterData(filter, fields, sort, offset, size) ==
    LET off == IF IsUndefined(offset) THEN Num(0) ELSE offset
        flds == IF IsUndefined(fields) THEN Arr(<<>>) ELSE fields
        b0 == [k \in {"from"} |-> off]
        b1 == IF ~IsUndefined(filter) THEN Put(b0, "query", getFilterObj(filter)) ELSE b0
        b2 == Put(b1, "sort", getESSortBody(sort))
        b3 == IF ~IsUndefined(size) THEN Put(b2, "size", size) ELSE b2
    IN IF ~Falsy(flds) /\ Len(flds.val) > 0 THEN Put(b3, "_source", flds) ELSE b3

\* The keys kept when their value is truthy.
truthyQueryBody(queryBody) ==
    [k \in {x \in DOMAIN queryBody : ~Falsy(queryBody[x])} |-> queryBody[k]]

\* query's validatedQueryBody: the keys whose value is neither undefined
\* nor null.
validatedQueryBody(queryBody) ==
    [k \in {x \in DOMAIN queryBody : queryBody[x].type \notin {"undefined", "null"}} |->
        queryBody[k]]

\* Answers of client.search to a bounded query.
Hit(n) == [_id |-> n, _source |-> [doc |-> n]]
QueryAnswers ==
    {[kind |-> "error", message |-> "search failed"],
     [kind |-> "error", message |-> "timeout"],
     [kind |-> "body", total |-> 0, hits |-> <<>>],
     [kind |-> "body", total |-> 1, hits |-> <<Hit(1)>>]}

\* hits.map(item => item._source)
Sources(hits) == [i \in DOMAIN hits |-> hits[i]._source]

\* getData is called: the guard throws, or filterData builds the body and
\* query dispatches the search.
getData ==
    /\ Serving
    /\ bq.pc # "searching"
    /\ \E d \in Range(config.indices.val), filter \in FilterArgs, fields \in FieldsArgs,
          sort \in SortArgs, offset \in OffsetArgs, size \in SizeArgs :
        IF ExceedsCeiling(offset, size)
        THEN bq' = [pc |-> "rejected", op |-> "getData", offset |-> offset, size |-> size,
                    calls |-> 0,
                    error |-> UserInputError("Large graphql query forbidden", <<offset, size>>)]
        ELSE LET queryBody == filterData(filter, fields, sort, offset, size) IN
             bq' = [pc |-> "searching", op |-> "getData", offset |-> offset, size |-> size,
                    calls |-> 1, index |-> d.index, esType |-> d.type,
                    filter |-> filter, fields |-> fields, sort |-> sort,
                    queryBody |-> queryBody, body |-> validatedQueryBody(queryBody)]
    /\ UNCHANGED <<config, tierAccessMiddleware, cacheVars, initVars, ret, exports, cursors>>

\* getCount is called: filterData with the filter and no fields.
getCount ==
    /\ Serving
    /\ bq.pc # "searching"
    /\ \E d \in Range(config.indices.val), filter \in FilterArgs :
        LET queryBody == filterData(filter, Arr(<<>>), Undefined, Undefined, Undefined) IN
        bq' = [pc |-> "searching", op |-> "getCount", offset |-> Undefined,
               size |-> Undefined, calls |-> 1, index |-> d.index, esType |-> d.type,
               filter |-> filter, fields |-> Arr(<<>>), sort |-> Undefined,
               queryBody |-> queryBody, body |-> validatedQueryBody(queryBody)]
    /\ UNCHANGED <<config, tierAccessMiddleware, cacheVars, initVars, ret, exports, cursors>>

\* The search issued again when it fails.
QueryRetried(q, answer) == [q EXCEPT !.calls = @ + 1]

\* The rejection handler of query's search: throw new Error(err.message).
\* The promise of query, and with it getData or getCount, rejects.
QueryRejected(q, answer) ==
    [pc |-> "rejected", op |-> q.op, offset |-> q.offset, size |-> q.size,
     calls |-> q.calls, answer |-> answer, error |-> Error(answer.message)]

\* The search of a bounded query is answered: query rethrows an engine error
\* as Error(err.message), getData maps the hits to their sources, getCount
\* reads hits.total.
QueryResponse ==
    /\ bq.pc = "searching"
    /\ \E answer \in QueryAnswers :
        IF answer.kind = "error"
        THEN bq' = QueryRejected(bq, answer)
        ELSE bq' = [pc |-> "resolved", op |-> bq.op, offset |-> bq.offset, size |-> bq.size,
                    calls |-> bq.calls, answer |-> answer, body |-> bq.body,
                    value |-> IF bq.op = "getData"
                              THEN Arr(Sources(answer.hits))
                              ELSE Num(answer.total)]
    /\ UNCHANGED <<config, tierAccessMiddleware, cacheVars, initVars, ret, exports, cursors>>


\* ------------------------------------ scroll export (downloadData)

\* The callers that may each run one export, concurrently.
Exporters == {"e1", "e2"}

\* Targets of an export: a configured descriptor, one with an empty type
\* name, and an index that is not configured.
ExportTargets ==
    {[index |-> Str("idxA"), type |-> Str("typeA")],
     [index |-> Str("idxA"), type |-> Str("")],
     [index |-> Str("idxX"), type |-> Str("typeX")]}

\* Requested fields: "f3" is in no mapping, "f2" in the larger one only.
ExportFieldsArgs == {Undefined, Arr(<<"f1">>), Arr(<<"f3", "f1", "f2">>)}

\* A scroll id names the engine's search context and the version of the id.
ScrollId(c, v) == [type |-> "scroll_id", ctx |-> c, ver |-> v]

\* The k-th document matched by the search that opened context c.
ExportHit(c, k) == [_id |-> k, _source |-> [ctx |-> c, n |-> k]]

\* Documents from + 1 .. from + b of context c.
Batch(c, from, b) == [i \in 1..b |-> ExportHit(c, from + i)]

\* Sizes of the batch the engine may serve when r documents remain: none
\* when r = 0, else at least one and at most the requested page size.
BatchSizes(r) ==
    IF r = 0 THEN {0}
    ELSE {b \in 1..SCROLL_PAGE_SIZE : b <= r}

\* Only the first requested field that the index does not know.
FirstFieldNotBelonging(fields, known) ==
    LET all == IF IsUndefined(fields) THEN <<>>
               ELSE SelectSeq(fields.val, LAMBDA f : f \notin known)
    IN IF all = <<>> THEN <<>> ELSE <<Head(all)>>

\* _.difference(fields, known): the requested fields, in order, that the
\* index does not know; [] for undefined fields.
FieldsNotBelonging(fields, known) ==
    IF IsUndefined(fields) THEN <<>>
    ELSE SelectSeq(fields.val, LAMBDA f : f \notin known)

\* The loop guard tested as "the last batch was a full page".
FullPage(currentBatch, batchSize) ==
    IsUndefined(currentBatch) \/ batchSize = SCROLL_PAGE_SIZE

\* The loop guard of scrollQuery: !currentBatch || batchSize > 0
ContinueScrolling(currentBatch, batchSize) ==
    IsUndefined(currentBatch) \/ batchSize > 0

\* The batches merged by replacing what was fetched before.
ReplaceBatch(totalData, hits) == Sources(hits)

\* totalData = totalData.concat(currentBatch.hits.hits.map(item => item._source))
MergeBatch(totalData, hits) == totalData \o Sources(hits)

\* An export that has not been called.
IdleExport ==
    [pc |-> "idle", req |-> Undefined, currentBatch |-> Undefined, scrollID |-> Undefined,
     batchSize |-> 0, totalData |-> <<>>, calls |-> <<>>, received |-> <<>>,
     upstream |-> Undefined, outcome |-> Undefined]

\* The error the engine client rejects a failed call with.
ResponseError(text) == [name |-> "ResponseError", text |-> text]

\* scrollID kept in a field of the instance that every call assigns: the
\* value read is the one another call in flight has assigned, if there is one.
SharedScrollID(e, x) ==
    LET others == {o \in Exporters \ {e} : ~IsUndefined(exports[o].scrollID)}
    IN IF others = {} THEN x.scrollID
       ELSE exports[CHOOSE o \in others : TRUE].scrollID

\* `scroll_id: scrollID` in the scroll and clearScroll calls of caller e:
\* scrollID is a local variable of the scrollQuery call.
ScrollIDPassed(e, x) == x.scrollID

\* scrollID set from the first batch only.
KeepFirstScrollID(x, body) ==
    IF IsUndefined(x.scrollID) THEN body._scroll_id ELSE x.scrollID

\* scrollID = currentBatch._scroll_id
AssignScrollID(x, body) == body._scroll_id

\* The body of one loop iteration after its await: the batch is merged, the
\* guard is tested, and the next scroll call or clearScroll is issued.
\* `received` keeps the id and the size of every batch received.
AfterBatch(e, x, body) ==
    LET size == Len(body.hits)
        going == ContinueScrolling(Obj(body), size)
        merged == [x EXCEPT
                    !.currentBatch = Obj(body),
                    !.scrollID = AssignScrollID(x, body),
                    !.batchSize = size,
                    !.received = Append(@, [id |-> body._scroll_id, size |-> size]),
                    !.totalData = MergeBatch(@, body.hits)]
    IN [merged EXCEPT
            !.pc = IF going THEN "scroll" ELSE "clear",
            !.calls = Append(@, [op |-> IF going THEN "scroll" ELSE "clearScroll",
                                 id |-> ScrollIDPassed(e, merged)])]

\* downloadData is called and scrollQuery runs to its first await: the
\* index and type names and the requested fields are validated, then the
\* cursor-opening search is issued.
downloadData(e) ==
    /\ Serving
    /\ exports[e].pc = "idle"
    /\ \E target \in ExportTargets, fields \in ExportFieldsArgs :
        LET req == [index |-> target.index, type |-> target.type, fields |-> fields]
            x == [IdleExport EXCEPT !.req = req]
            known == getESFields(config, fieldTypes, target.index)
            fail(err) == [x EXCEPT !.pc = "rejected", !.outcome = Throw(err)]
        IN exports' = [exports EXCEPT ![e] =
            IF Falsy(target.index) \/ Falsy(target.type)
            THEN fail(CodedError(400, "Invalid es index or es type name", <<>>))
            ELSE IF known.threw \/ IsUndefined(known.value)
            THEN fail(TypeError)
            ELSE LET fieldsNotBelong == FieldsNotBelonging(fields, known.value.val.fields)
                 IN IF Len(fieldsNotBelong) > 0
                    THEN fail(CodedError(400, "Invalid fields", fieldsNotBelong))
                    ELSE [x EXCEPT !.pc = "search",
                                   !.calls = <<[op |-> "search", id |-> Undefined]>>]]
    /\ UNCHANGED <<config, tierAccessMiddleware, cacheVars, initVars, ret, bq, cursors>>

\* The cursor-opening search is answered.  An engine error is rethrown as
\* Error(err.message).  Otherwise the engine has opened a context over the
\* n documents the query matches and serves the first batch.
SearchResponse(e) ==
    /\ exports[e].pc = "search"
    /\ \/ /\ exports' = [exports EXCEPT ![e] =
                [@ EXCEPT !.pc = "rejected",
                          !.upstream = Obj([op |-> "search",
                                            error |-> ResponseError("search failed")]),
                          !.outcome = Throw(Error("search failed"))]]
          /\ UNCHANGED cursors
       \/ \E n \in 0..MaxDocs : \E b \in BatchSizes(n) :
            /\ cursors' = [cursors EXCEPT ![e] =
                    [state |-> "open", total |-> n, pos |-> b, ver |-> 0]]
            /\ exports' = [exports EXCEPT ![e] =
                    AfterBatch(e, @, [_scroll_id |-> ScrollId(e, 0), hits |-> Batch(e, 0, b)])]
    /\ UNCHANGED <<config, tierAccessMiddleware, cacheVars, initVars, ret, bq>>

\* A scroll call is answered.  An engine error rejects scrollQuery as it
\* is: the call has no handler and the loop no try/finally.  Otherwise the
\* engine serves the next batch of the context the id names, with the same
\* or a renewed id.
ScrollResponse(e) ==
    /\ exports[e].pc = "scroll"
    /\ LET c == exports[e].calls[Len(exports[e].calls)].id.ctx IN
       \/ /\ exports' = [exports EXCEPT ![e] =
                [@ EXCEPT !.pc = "rejected",
                          !.upstream = Obj([op |-> "scroll",
                                            error |-> ResponseError("scroll failed")]),
                          !.outcome = Throw(ResponseError("scroll failed"))]]
          /\ UNCHANGED cursors
       \/ /\ cursors[c].state = "open"
          /\ \E b \in BatchSizes(cursors[c].total - cursors[c].pos) :
             \E v \in {cursors[c].ver, IF cursors[c].ver < MaxRenewals
                                       THEN cursors[c].ver + 1 ELSE cursors[c].ver} :
                /\ cursors' = [cursors EXCEPT ![c].pos = @ + b, ![c].ver = v]
                /\ exports' = [exports EXCEPT ![e] =
                        AfterBatch(e, @, [_scroll_id |-> ScrollId(c, v),
                                          hits |-> Batch(c, cursors[c].pos, b)])]
    /\ UNCHANGED <<config, tierAccessMiddleware, cacheVars, initVars, ret, bq>>

\* clearScroll is answered: scrollQuery returns totalData, or rejects with
\* the engine's error, the context still open.
ClearResponse(e) ==
    /\ exports[e].pc = "clear"
    /\ LET c == exports[e].calls[Len(exports[e].calls)].id.ctx IN
       \/ /\ exports' = [exports EXCEPT ![e] =
                [@ EXCEPT !.pc = "rejected",
                          !.upstream = Obj([op |-> "clearScroll",
                                            error |-> ResponseError("clear failed")]),
                          !.outcome = Throw(ResponseError("clear failed"))]]
          /\ UNCHANGED cursors
       \/ /\ cursors' = [cursors EXCEPT ![c].state = "cleared"]
          /\ exports' = [exports EXCEPT ![e] =
                [@ EXCEPT !.pc = "resolved", !.outcome = Return(Arr(exports[e].totalData))]]
    /\ UNCHANGED <<config, tierAccessMiddleware, cacheVars, initVars, ret, bq>>


\* ------------------------------------------------------ specifications

Init ==
    /\ config \in [indices : IndicesChoices, configIndex : ConfigIndexChoices]
    /\ tierAccessMiddleware = BuildTierAccessMiddleware(config.indices)
    /\ fieldTypes = Undefined
    /\ arrayFields = Undefined
    /\ initPc = "idle"
    /\ pending = <<>>
    /\ lookup = [state |-> "none"]
    /\ initCount = 0
    /\ initLog = <<>>
    /\ snapshot = [fieldTypes |-> Undefined, arrayFields |-> Undefined]
    /\ ret = [op |-> "none"]
    /\ bq = [pc |-> "idle"]
    /\ exports = [e \in Exporters |-> IdleExport]
    /\ cursors = [e \in Exporters |-> [state |-> "none", total |-> 0, pos |-> 0, ver |-> 0]]

\* The metadata cache: initialization, re-initialization and the readers.
Next ==
    \/ initialize
    \/ MappingResponse
    \/ MappingRejected
    \/ MappingJoined
    \/ LookupSkipped
    \/ LookupResponse
    \/ CallGetESFieldTypeMappingByIndex
    \/ CallGetESFields
    \/ CallGetESIndexByType
    \/ CallIsArrayField

Spec == Init /\ [][Next]_vars

\* The configuration of the request scenarios: two indices, no config index.
ServingConfig == [indices |-> Arr(<<DescA, DescB>>), configIndex |-> Undefined]

\* initialize() as the server calls it at start-up, once.
startup == initCount = 0 /\ initialize

\* Bounded queries against an instance initialized at start-up.
QueryNext ==
    \/ startup
    \/ MappingResponse
    \/ MappingRejected
    \/ MappingJoined
    \/ LookupSkipped
    \/ getData
    \/ getCount
    \/ QueryResponse

ServingInit == Init /\ config = ServingConfig

QuerySpec == ServingInit /\ [][QueryNext]_vars

\* Exports against an instance initialized at start-up.
ExportNext ==
    \/ startup
    \/ MappingResponse
    \/ MappingRejected
    \/ MappingJoined
    \/ LookupSkipped
    \/ \E e \in Exporters : downloadData(e)
    \/ \E e \in Exporters : SearchResponse(e)
    \/ \E e \in Exporters : ScrollResponse(e)
    \/ \E e \in Exporters : ClearResponse(e)

ExportSpec == ServingInit /\ [][ExportNext]_vars

\* Every kind of request against an instance initialized at start-up.  A
\* behaviour issues requests of one kind: reader calls, bounded queries or
\* exports.
OnlyReaderCalls ==
    /\ bq.pc = "idle"
    /\ \A e \in Exporters : exports[e].pc = "idle"

OnlyBoundedQueries ==
    /\ ret.op = "none"
    /\ \A e \in Exporters : exports[e].pc = "idle"

OnlyExports ==
    /\ ret.op = "none"
    /\ bq.pc = "idle"

RequestNext ==
    \/ startup
    \/ MappingResponse
    \/ MappingRejected
    \/ MappingJoined
    \/ LookupSkipped
    \/ OnlyReaderCalls /\ CallGetESFieldTypeMappingByIndex
    \/ OnlyReaderCalls /\ CallGetESFields
    \/ OnlyReaderCalls /\ CallGetESIndexByType
    \/ OnlyReaderCalls /\ CallIsArrayField
    \/ OnlyBoundedQueries /\ getData
    \/ OnlyBoundedQueries /\ getCount
    \/ OnlyBoundedQueries /\ QueryResponse
    \/ OnlyExports /\ \E e \in Exporters : downloadData(e)
    \/ OnlyExports /\ \E e \in Exporters : SearchResponse(e)
    \/ OnlyExports /\ \E e \in Exporters : ScrollResponse(e)
    \/ OnlyExports /\ \E e \in Exporters : ClearResponse(e)

RequestSpec == ServingInit /\ [][RequestNext]_vars

\* ------------------------------------------------------------- claims

\* The indices named by the configured descriptors.
ConfiguredIndices ==
    IF config.indices.type = "array"
    THEN {config.indices.val[i].index : i \in DOMAIN config.indices.val}
    ELSE {}

AllSources(e) == [k \in 1..cursors[e].total |-> [ctx |-> e, n |-> k]]

InFlight(e) == exports[e].pc \in {"search", "scroll", "clear"}
Finished(e) == exports[e].pc \in {"resolved", "rejected"}

\* C2: an export over the N documents the engine holds for its query issues
\* at most N + 2 engine calls (the search, at most N scroll calls, and
\* clearScroll), so its loop ends once they are answered; it rejects after
\* its search was issued only on an engine error, and when it returns it
\* returns exactly those N documents, each once and in the engine's order,
\* whatever N is and however the engine cuts the documents into batches of at
\* most SCROLL_PAGE_SIZE.
C2_ExportReturnsEveryDocument ==
    \A e \in Exporters :
        /\ Len(exports[e].calls) <= cursors[e].total + 2
        /\ exports[e].pc = "resolved" =>
            exports[e].outcome = Return(Arr(AllSources(e)))
        /\ (exports[e].pc = "rejected" /\ exports[e].calls # <<>>) =>
            exports[e].outcome.error.name \in {"Error", "ResponseError"}

\* C2's case: an export has returned more documents than one page holds.
C2_Witness ==
    \E e \in Exporters :
        /\ exports[e].pc = "resolved"
        /\ cursors[e].total = MaxDocs
        /\ MaxDocs > SCROLL_PAGE_SIZE
        /\ Len(exports[e].outcome.value.val) = MaxDocs

\* C3: clearScroll is called at most once in an export, as its last engine
\* call and only when the batch just received had no hits; an export that
\* returns has called it.
C3_ClearScrollOnceAfterEmptyBatch ==
    \A e \in Exporters :
        LET x == exports[e] IN
        /\ \A i \in DOMAIN x.calls :
            x.calls[i].op = "clearScroll" =>
                /\ i = Len(x.calls)
                /\ x.batchSize = 0
                /\ x.currentBatch.val.hits = <<>>
        /\ x.pc = "resolved" =>
            /\ x.calls # <<>>
            /\ x.calls[Len(x.calls)].op = "clearScroll"

\* C3's case: an export has returned documents after at least one scroll.
C3_Witness ==
    \E e \in Exporters :
        /\ exports[e].pc = "resolved"
        /\ exports[e].totalData # <<>>
        /\ Len(exports[e].calls) >= 3

\* C4: an export that has opened a scroll context has called clearScroll
\* for it by the time it returns or fails.
C4_CursorReleasedOnEveryExit ==
    \A e \in Exporters :
        (Finished(e) /\ cursors[e].state # "none") =>
            \E i \in DOMAIN exports[e].calls :
                /\ exports[e].calls[i].op = "clearScroll"
                /\ exports[e].calls[i].id.ctx = e

\* C5: an export of a configured index and a type name whose requested
\* fields include fields the index does not know is rejected with a
\* CodedError 400 that names each of them, with no engine call issued.
C5_InvalidFieldsRejected ==
    \A e \in Exporters :
        LET x == exports[e] IN
        (/\ x.pc # "idle"
         /\ ~Falsy(x.req.type)
         /\ x.req.index.val \in ConfiguredIndices
         /\ ~IsUndefined(x.req.fields)
         /\ \E f \in Range(x.req.fields.val) : f \notin DOMAIN fieldTypes.val[x.req.index.val])
        => /\ x.pc = "rejected"
           /\ x.outcome.threw
           /\ x.outcome.error.name = "CodedError"
           /\ x.outcome.error.code = 400
           /\ Range(x.outcome.error.names)
                = {f \in Range(x.req.fields.val) : f \notin DOMAIN fieldTypes.val[x.req.index.val]}
           /\ x.calls = <<>>

\* C5's case: two of the three requested fields are unknown and both are named.
C5_Witness ==
    \E e \in Exporters :
        /\ exports[e].pc = "rejected"
        /\ exports[e].req.fields = Arr(<<"f3", "f1", "f2">>)
        /\ exports[e].outcome.error.names = <<"f3", "f2">>

\* C6: with an empty list of index descriptors initialize() fails, and
\* this.fieldTypes is never set (the cache never looks ready).
C6_EmptyConfigNeverReady ==
    config.indices = Arr(<<>>) =>
        /\ IsUndefined(fieldTypes)
        /\ initPc # "ready"

\* C7: once one of the per-index mapping fetches has failed, initialize()
\* can only fail: the cache is what it was when initialize() was called (no
\* map of the indices that did succeed is stored) and the config-index
\* search is not issued.
C7_MappingFailureAborts ==
    (\E i \in DOMAIN pending : pending[i].state = "rejected") =>
        /\ initPc \in {"mapping", "failed"}
        /\ fieldTypes = snapshot.fieldTypes
        /\ arrayFields = snapshot.arrayFields
        /\ \A k \in DOMAIN initLog : initLog[k].op # "search"

\* C7's case: initialize() has failed with one mapping fetched and one failed.
C7_Witness ==
    /\ initPc = "failed"
    /\ \E i, j \in DOMAIN pending :
        pending[i].state = "rejected" /\ pending[j].state = "resolved"

\* C8: after a successful initialize() every index with array fields is a
\* configured one and each of its array fields is a key of its field-type
\* map; a config-index answer never makes initialize() fail, whatever unknown
\* index or field its documents name, and every field of an answered
\* document that the field-type map knows is registered.
C8_ArrayFieldsWithinMapping ==
    /\ lookup.state = "resolved" => initPc = "ready"
    /\ initPc = "ready" =>
        /\ \A ix \in DOMAIN arrayFields.val :
            /\ ix \in ConfiguredIndices
            /\ \A f \in Range(arrayFields.val[ix]) : f \in DOMAIN fieldTypes.val[ix]
        /\ lookup.state = "resolved" =>
            \A k \in DOMAIN lookup.hits :
                LET doc == lookup.hits[k] IN
                \A j \in DOMAIN doc.array :
                    (/\ doc._id \in DOMAIN fieldTypes.val
                     /\ doc.array[j] \in DOMAIN fieldTypes.val[doc._id])
                    => /\ doc._id \in DOMAIN arrayFields.val
                       /\ doc.array[j] \in Range(arrayFields.val[doc._id])

\* C8's case: the answer held a document of an unknown index and one that
\* names the unknown field f3 before the known field f1; initialize() has
\* succeeded with f1 registered.
C8_Witness ==
    /\ initPc = "ready"
    /\ lookup.state = "resolved"
    /\ DocX \in Range(lookup.hits)
    /\ DocA \in Range(lookup.hits)
    /\ "idxA" \in DOMAIN arrayFields.val
    /\ "f1" \in Range(arrayFields.val["idxA"])
    /\ "f3" \notin Range(arrayFields.val["idxA"])

\* C9: getESFields of an index that is not configured throws an InvalidInput
\* error naming it, and getESFields of a configured index returns the field
\* names of this.fieldTypes[index].  Stated for a configuration with at
\* least one descriptor.
C9_GetESFieldsUnknownIndexThrows ==
    (Serving /\ ConfiguredIndices # {}) =>
        \A ix \in IndexNames :
            LET out == getESFields(config, fieldTypes, Str(ix)) IN
            IF ix \in ConfiguredIndices
            THEN /\ ~out.threw
                 /\ out.value.type = "object"
                 /\ out.value.val.fields = DOMAIN fieldTypes.val[ix]
            ELSE /\ out.threw
                 /\ out.error.name \in {"CodedError", "UserInputError"}
                 /\ ix \in Range(out.error.names)

\* C10: isArrayField returns a boolean for every index and field, true
\* exactly for the fields registered for that index by initialize().  Stated
\* for a configuration with at least one descriptor.
C10_IsArrayFieldBoolean ==
    (Serving /\ ConfiguredIndices # {}) =>
        \A ix \in IndexNames, f \in FieldNames :
            isArrayField(arrayFields, ix, f)
                = Return(Bool(/\ ix \in DOMAIN arrayFields.val
                              /\ f \in Range(arrayFields.val[ix])))

\* C11: getESIndexByType of a type returns the index of the first configured
\* descriptor, in configuration order, that declares the type, which is a
\* configured index; and throws a CodedError 400 naming the type when no
\* configured descriptor declares it.
C11_IndexOfFirstDescriptorOfType ==
    ret.op = "getESIndexByType" =>
        LET esType == ret.args[1].val
            descs == config.indices.val
            declaring == {i \in DOMAIN descs : descs[i].type = esType}
        IN IF declaring = {}
           THEN /\ ret.out.threw
                /\ ret.out.error.name = "CodedError"
                /\ ret.out.error.code = 400
                /\ ret.out.error.names = <<esType>>
           ELSE /\ ~ret.out.threw
                /\ ret.out.value.type = "string"
                /\ ret.out.value.val \in ConfiguredIndices
                /\ \E i \in declaring :
                    /\ ret.out.value.val = descs[i].index
                    /\ \A j \in declaring : i <= j

\* C11's case: two descriptors declare typeA and the call returned the index
\* of the first.
C11_Witness ==
    /\ ret.op = "getESIndexByType"
    /\ ret.args = <<Str("typeA")>>
    /\ config.indices = Arr(<<DescA, DescC>>)
    /\ ret.out = Return(Str("idxA"))

\* C12: a getData or getCount call issues at most one search; a call whose
\* search the engine failed is rejected with an Error that carries the
\* engine's message, having issued that one search only, and a call that
\* returned has issued exactly one.
C12_OneSearchNoRetry ==
    bq.pc # "idle" =>
        /\ bq.calls <= 1
        /\ bq.pc = "resolved" => bq.calls = 1 /\ bq.answer.kind = "body"
        /\ (bq.pc = "rejected" /\ bq.calls = 1) =>
            /\ bq.answer.kind = "error"
            /\ bq.error = Error(bq.answer.message)

\* C12's case: the search of a getCount call timed out and the call was
\* rejected with that message after its one search.
C12_Witness ==
    /\ bq.pc = "rejected"
    /\ bq.op = "getCount"
    /\ bq.calls = 1
    /\ bq.error = Error("timeout")

\* C13: an export whose opening search or whose scroll call the engine
\* failed is rejected with an Error made from the engine's error and carrying
\* its message, not with the engine's error itself, and it does not return.
C13_ExportErrorWrapped ==
    \A e \in Exporters :
        LET x == exports[e] IN
        (~IsUndefined(x.upstream) /\ x.upstream.val.op \in {"search", "scroll"}) =>
            /\ x.pc = "rejected"
            /\ x.outcome.threw
            /\ x.outcome.error = Error(x.upstream.val.error.text)

\* C14: while an initialize() runs, one getMapping call per descriptor has
\* been issued, in configuration order, before any of them is answered; the
\* config-index search is issued after all of them, and only once every one
\* of them has resolved.
C14_LookupAfterAllMappings ==
    /\ pending # <<>> =>
        /\ Len(pending) = Len(config.indices.val)
        /\ Len(initLog) >= Len(pending)
        /\ \A i \in DOMAIN pending :
            initLog[i] = [op |-> "getMapping", index |-> config.indices.val[i].index]
    /\ \A k \in DOMAIN initLog :
        initLog[k].op = "search" =>
            /\ k = Len(pending) + 1
            /\ \A i \in DOMAIN pending : pending[i].state = "resolved"
    /\ lookup.state \in {"inflight", "resolved", "rejected"} =>
        /\ \A i \in DOMAIN pending : pending[i].state = "resolved"
        /\ initLog # <<>>
        /\ initLog[Len(initLog)].op = "search"

\* C14's case: the config-index search is in flight after two mapping
\* fetches.
C14_Witness ==
    /\ initPc = "lookup"
    /\ lookup.state = "inflight"
    /\ Len(pending) = 2
    /\ Len(initLog) = 3
    /\ initLog[3].op = "search"

\* C15: with the engine calls of the exports interleaved in any order, every
\* scroll and clearScroll call of an export names the context the engine
\* opened for that export's own search, the documents an export has gathered
\* and returns are those of its own context, and a context that has been
\* released was released by the export that opened it.
C15_ExportsKeepTheirOwnCursor ==
    \A e \in Exporters :
        LET x == exports[e] IN
        /\ \A i \in DOMAIN x.calls :
            x.calls[i].op \in {"scroll", "clearScroll"} => x.calls[i].id.ctx = e
        /\ \A k \in DOMAIN x.totalData : x.totalData[k].ctx = e
        /\ x.pc = "resolved" =>
            \A k \in DOMAIN x.outcome.value.val : x.outcome.value.val[k].ctx = e
        /\ cursors[e].state = "cleared" =>
            /\ x.pc = "resolved"
            /\ x.calls[Len(x.calls)] = [op |-> "clearScroll", id |-> x.scrollID]

\* C15's case: two exports are scrolling at the same time, each with
\* documents gathered, and one of them after the other's cursor was opened.
C15_Witness ==
    \A e \in Exporters :
        /\ exports[e].pc = "scroll"
        /\ exports[e].totalData # <<>>
        /\ Len(exports[e].calls) >= 3

\* C16: the first engine call of an export is its cursor-opening search and
\* no later call is a search; each later call follows one batch and passes
\* the id that came with that batch, the one immediately before it; a scroll
\* call follows a batch with hits only, and clearScroll follows the empty
\* batch, is passed its id, and is the last call.
C16_ScrollProtocol ==
    \A e \in Exporters :
        LET x == exports[e] IN
        /\ x.calls # <<>> => x.calls[1] = [op |-> "search", id |-> Undefined]
        /\ x.received # <<>> => Len(x.calls) = Len(x.received) + 1
        /\ \A i \in DOMAIN x.calls :
            i > 1 =>
                /\ x.calls[i].op \in {"scroll", "clearScroll"}
                /\ i - 1 \in DOMAIN x.received
                /\ x.calls[i].id = x.received[i - 1].id
                /\ x.calls[i].op = "scroll" => x.received[i - 1].size > 0
                /\ x.calls[i].op = "clearScroll" =>
                    /\ x.received[i - 1].size = 0
                    /\ i = Len(x.calls)

\* C16's case: an export has returned after the engine renewed the id of its
\* cursor between two batches, and its later call passed the renewed id.
C16_Witness ==
    \E e \in Exporters :
        /\ exports[e].pc = "resolved"
        /\ \E i \in DOMAIN exports[e].calls :
            /\ i > 2
            /\ exports[e].calls[i - 1].id = ScrollId(e, 0)
            /\ exports[e].calls[i].id = ScrollId(e, 1)

\* C17: once initialize() has completed, the cache holds what initialize()
\* stored (the field types merged from the mapping answers and, with no
\* config index set, no array fields) and no step of a getData, getCount, downloadData,
\* getESFields, getESFieldTypeMappingByIndex, getESIndexByType or isArrayField
\* call, returning or failing, changes this.fieldTypes or this.arrayFields.
C17_RequestsLeaveCacheUnchanged ==
    /\ [](Serving =>
            /\ fieldTypes = Obj(MergeResults(pending))
            /\ arrayFields = Obj(EmptyObj))
    /\ [][(ret' # ret \/ bq' # bq \/ exports' # exports) =>
            (fieldTypes' = fieldTypes /\ arrayFields' = arrayFields)]_vars

\* C17's case: an export has failed at a scroll call after a batch, and the
\* cache is what initialize() stored.
C17_Witness ==
    /\ \E e \in Exporters :
        /\ exports[e].pc = "rejected"
        /\ Len(exports[e].calls) >= 2
    /\ fieldTypes = Obj(MergeResults(pending))
    /\ arrayFields = Obj(EmptyObj)

\* C18: from the call of a second initialize() on a served instance until
\* that call has succeeded, this.fieldTypes and this.arrayFields are both
\* what they were when it was called: a reader, which may run in any of
\* these states, sees the pair of one initialization only, and a
\* re-initialization that has failed has changed neither.
C18_ReinitReplacesWholesale ==
    (/\ initCount >= 2
     /\ ~IsUndefined(snapshot.arrayFields)
     /\ initPc # "ready")
    => /\ fieldTypes = snapshot.fieldTypes
       /\ arrayFields = snapshot.arrayFields

\* C19: the body of the search a getData or getCount call dispatches has
\* exactly the keys of the query body filterData built whose value is neither
\* undefined nor null, each with that value; it always has `from`, with an
\* offset of 0 kept as 0; and for a request with no filter, no sort, no size
\* and no fields it has none of query, sort, size and _source.
C19_DispatchedBodyStripped ==
    bq.pc = "searching" =>
        /\ \A k \in {"from", "query", "sort", "size", "_source"} :
            k \in DOMAIN bq.body <=>
                /\ k \in DOMAIN bq.queryBody
                /\ bq.queryBody[k] # Undefined
                /\ bq.queryBody[k] # Null
        /\ DOMAIN bq.body \subseteq DOMAIN bq.queryBody
        /\ \A k \in DOMAIN bq.body : bq.body[k] = bq.queryBody[k]
        /\ "from" \in DOMAIN bq.body
        /\ bq.body["from"] = IF IsUndefined(bq.offset) THEN Num(0) ELSE bq.offset
        /\ (/\ IsUndefined(bq.filter)
            /\ IsUndefined(bq.sort)
            /\ IsUndefined(bq.size)
            /\ (IsUndefined(bq.fields) \/ bq.fields = Arr(<<>>)))
           => DOMAIN bq.body = {"from"}

\* C19's case: a getData request with offset 0, a null size and nothing
\* else was dispatched with the body {from: 0}.
C19_Witness ==
    /\ bq.pc = "searching"
    /\ bq.op = "getData"
    /\ bq.offset = Num(0)
    /\ bq.size = Null
    /\ "sort" \in DOMAIN bq.queryBody
    /\ bq.body = [k \in {"from"} |-> Num(0)]

\* C20: while requests are served, the middleware built from the
\* configuration when its module loaded has, for every configured descriptor, a Query guard marked as raw-data query and an
\* Aggregation guard under the descriptor's type, both bound to that
\* descriptor's type and index, and a _totalCount hider under
\* '<Type>Aggregation'; it has the two histogram hiders whatever the
\* configuration.
C20_MiddlewareCoversEveryDescriptor ==
    (Serving /\ config.indices.type = "array") =>
        LET mw == tierAccessMiddleware.val
            descs == config.indices.val
        IN /\ \A i \in DOMAIN descs :
                LET d == descs[i]
                    name == firstLetterUpperCase(d.type) \o "Aggregation"
                IN /\ d.type \in DOMAIN mw["Query"]
                   /\ mw["Query"][d.type] = tierAccessResolver(Bool(TRUE), d.type, d.index)
                   /\ d.type \in DOMAIN mw["Aggregation"]
                   /\ mw["Aggregation"][d.type]
                        = tierAccessResolver(Undefined, d.type, d.index)
                   /\ name \in DOMAIN mw
                   /\ mw[name] = [_totalCount |-> hideNumberResolver(TRUE, TRUE)]
           /\ mw["HistogramForNumber"] = [histogram |-> hideNumberResolver(FALSE, TRUE)]
           /\ mw["HistogramForString"] = [histogram |-> hideNumberResolver(FALSE, TRUE)]

====
